---- MODULE Spec2Model ----
(***************************************************************************)
(* Model of programs/bandforband/src/lib.rs (trading_duel_protocol).       *)
(*                                                                         *)
(* State: the Protocol singleton, the Duel records keyed by the value of   *)
(* protocol.total_duels at creation, one escrow balance per duel, the      *)
(* wallet balances of the identities, and the ledger clock.  Every         *)
(* instruction is one atomic action: either all of its effects are applied *)
(* or, when a require! or a transfer fails, none are (the host ledger      *)
(* reverts a failed transaction).  The latest instruction                  *)
(* that succeeded (its event and transfers) is kept in last.               *)
(*                                                                         *)
(* Amounts are kept below 2^31, where u64 and i64 arithmetic do not wrap   *)
(* and the cast `as i64` preserves the value.                              *)
(***************************************************************************)
EXTENDS Integers, Sequences, FiniteSets

\* ------------------------------------------------------------------ bounds
MaxTime == 1
MaxDuration == 1
MaxStake == 2
MaxValue == 1
MaxArithStake == 2
MaxDuels == 2
MaxLifecycleDuels == 1

\* --------------------------------------------------------- program constants
BpsDenominator == 10000

\* Pubkey::default(), the "unset" opponent
DefaultKey == 0
\* the identities: wallets that sign and receive
Keys == {1, 2, 3}
\* the treasury and the authority named at initialize
TreasuryKeys == {3}
AuthorityKeys == {1}
InitBalance == MaxStake + 1

Stakes == 1 .. MaxStake
Durations == 0 .. MaxDuration
Values == 0 .. MaxValue
FeeBps == {0, 5000, BpsDenominator}
TokenLists == {<< >>}

DuelStatus == {"Pending", "Accepted", "Active", "Settled", "Cancelled"}
DuelWinner == {"None", "Creator", "Opponent", "Draw"}
DuelError == {"InvalidStatus", "DuelAlreadyAccepted", "NotParticipant", "DuelExpired",
              "DuelNotExpired", "CannotCancel", "Unauthorized"}
\* a system_program::transfer that fails for lack of funds
HostError == {"TransferFailed"}

VARIABLES protocol, duels, escrow, balance, clock, deposited, last

vars == <<protocol, duels, escrow, balance, clock, deposited, last>>

DuelIds == DOMAIN duels

\* ------------------------------------------------------------ pure helpers

\* variant: the quotient rounded toward minus infinity
TruncDiv_Floor(a, b) == IF b > 0 THEN a \div b ELSE (-a) \div (-b)

\* i64 division: the quotient is truncated toward zero
TruncDiv(a, b) ==
    IF (a >= 0) = (b > 0)
    THEN (IF a >= 0 THEN a ELSE -a) \div (IF b > 0 THEN b ELSE -b)
    ELSE -((IF a >= 0 THEN a ELSE -a) \div (IF b > 0 THEN b ELSE -b))

calculate_pnl(starting_value, final_value) ==
    IF starting_value = 0
    THEN 0
    ELSE TruncDiv((final_value - starting_value) * BpsDenominator, starting_value)

\* variant: a tie leaves the winner unset
DetermineWinner_TieUnset(creator_pnl, opponent_pnl) ==
    IF creator_pnl > opponent_pnl THEN "Creator"
    ELSE IF opponent_pnl > creator_pnl THEN "Opponent"
    ELSE "None"

DetermineWinner(creator_pnl, opponent_pnl) ==
    IF creator_pnl > opponent_pnl THEN "Creator"
    ELSE IF opponent_pnl > creator_pnl THEN "Opponent"
    ELSE "Draw"

\* variant: one stake instead of the pooled two
TotalStake_Single(stake_amount) == stake_amount

TotalStake(stake_amount) == stake_amount * 2

\* variant: the fee rounded up
ProtocolFee_RoundUp(total_stake, fee_bps) ==
    (total_stake * fee_bps + (BpsDenominator - 1)) \div BpsDenominator

ProtocolFee(total_stake, fee_bps) == (total_stake * fee_bps) \div BpsDenominator

WinnerPayout(total_stake, protocol_fee) == total_stake - protocol_fee

DrawRefund(stake_amount, protocol_fee) == stake_amount - (protocol_fee \div 2)

\* the transfers settle_duel requests, in order, each out of the duel's escrow
SettleTransfers(winner, creator_acct, opponent_acct, treasury_acct, stake_amount, protocol_fee, winner_payout) ==
    << [to |-> treasury_acct, amount |-> protocol_fee] >> \o
    ( IF winner = "Draw"
      THEN << [to |-> creator_acct, amount |-> DrawRefund(stake_amount, protocol_fee)],
              [to |-> opponent_acct, amount |-> DrawRefund(stake_amount, protocol_fee)] >>
      ELSE << [to |-> IF winner = "Creator" THEN creator_acct ELSE opponent_acct,
               amount |-> winner_payout] >> )

\* system_program::transfer out of an escrow, one after the other: a transfer
\* of more than the escrow still holds fails, and with it the instruction
RECURSIVE RunTransfers(_, _, _)
RunTransfers(esc, bal, ts) ==
    IF ts = << >> THEN [ok |-> TRUE, esc |-> esc, bal |-> bal]
    ELSE IF esc < Head(ts).amount THEN [ok |-> FALSE, esc |-> esc, bal |-> bal]
    ELSE RunTransfers(esc - Head(ts).amount,
                      [bal EXCEPT ![Head(ts).to] = @ + Head(ts).amount],
                      Tail(ts))

RECURSIVE SumAmounts(_)
SumAmounts(ts) == IF ts = << >> THEN 0 ELSE Head(ts).amount + SumAmounts(Tail(ts))

NoEvent == [kind |-> "None"]

\* ------------------------------------------------- the outcome of each call
\* "Ok", or the error of the first require! (or transfer) that fails

accept_duel_result(duel) ==
    IF duel.status # "Pending" THEN "InvalidStatus"
    ELSE IF duel.opponent # DefaultKey THEN "DuelAlreadyAccepted"
    ELSE "Ok"

deposit_stake_result(duel, depositor, depositor_balance) ==
    IF duel.status # "Accepted" THEN "InvalidStatus"
    ELSE IF ~(depositor = duel.creator \/ depositor = duel.opponent) THEN "NotParticipant"
    ELSE IF depositor_balance < duel.stake_amount THEN "TransferFailed"
    ELSE "Ok"

\* variant: no expiry check
update_positions_result_NoExpiry(duel, now) ==
    IF duel.status # "Active" THEN "InvalidStatus"
    ELSE "Ok"

\* variant: one more unit of time after end_time
update_positions_result_Grace(duel, now) ==
    IF duel.status # "Active" THEN "InvalidStatus"
    ELSE IF ~(now <= duel.end_time + 1) THEN "DuelExpired"
    ELSE "Ok"

\* variant: no status check
update_positions_result_NoStatus(duel, now) ==
    IF ~(now <= duel.end_time) THEN "DuelExpired"
    ELSE "Ok"

update_positions_result(duel, now) ==
    IF duel.status # "Active" THEN "InvalidStatus"
    ELSE IF ~(now <= duel.end_time) THEN "DuelExpired"
    ELSE "Ok"

\* variant: the outcome of the transfers is not looked at
settle_duel_result_TransfersUnchecked(duel, now, transfers_ok) ==
    IF duel.status # "Active" THEN "InvalidStatus"
    ELSE IF ~(now >= duel.end_time) THEN "DuelNotExpired"
    ELSE "Ok"

\* variant: no expiry check
settle_duel_result_NoExpiry(duel, now, transfers_ok) ==
    IF duel.status # "Active" THEN "InvalidStatus"
    ELSE IF ~transfers_ok THEN "TransferFailed"
    ELSE "Ok"

settle_duel_result(duel, now, transfers_ok) ==
    IF duel.status # "Active" THEN "InvalidStatus"
    ELSE IF ~(now >= duel.end_time) THEN "DuelNotExpired"
    ELSE IF ~transfers_ok THEN "TransferFailed"
    ELSE "Ok"

\* variant: the caller is not compared with the creator
cancel_duel_result_AnyCaller(duel, caller) ==
    IF duel.status # "Pending" THEN "CannotCancel"
    ELSE "Ok"

\* variant: cancellation also allowed once accepted
cancel_duel_result_Accepted(duel, caller) ==
    IF duel.status \notin {"Pending", "Accepted"} THEN "CannotCancel"
    ELSE IF caller # duel.creator THEN "Unauthorized"
    ELSE "Ok"

cancel_duel_result(duel, caller) ==
    IF duel.status # "Pending" THEN "CannotCancel"
    ELSE IF caller # duel.creator THEN "Unauthorized"
    ELSE "Ok"

\* what settle_duel computes from the duel, the protocol and the accounts passed
SettlePlan(duel, fee_bps, creator_acct, opponent_acct, treasury_acct) ==
    LET creator_pnl == calculate_pnl(duel.creator_starting_value, duel.creator_final_value)
        opponent_pnl == calculate_pnl(duel.opponent_starting_value, duel.opponent_final_value)
        winner == DetermineWinner(creator_pnl, opponent_pnl)
        total_stake == TotalStake(duel.stake_amount)
        protocol_fee == ProtocolFee(total_stake, fee_bps)
        winner_payout == WinnerPayout(total_stake, protocol_fee)
    IN  [winner |-> winner, creator_pnl |-> creator_pnl, opponent_pnl |-> opponent_pnl,
         total_stake |-> total_stake, protocol_fee |-> protocol_fee,
         winner_payout |-> winner_payout,
         transfers |-> SettleTransfers(winner, creator_acct, opponent_acct, treasury_acct,
                                       duel.stake_amount, protocol_fee, winner_payout)]

\* the latest instruction that succeeded: its name, duel, event and transfers
Done(op, d, ev, ts) == last' = [op |-> op, duel |-> d, event |-> ev, transfers |-> ts]

\* a rejected instruction is reverted by the ledger: no effect at all
Rejected == UNCHANGED vars

\* ------------------------------------------------------------------- state

Init ==
    /\ protocol = [initialized |-> FALSE, authority |-> DefaultKey, treasury |-> DefaultKey,
                   fee_bps |-> 0, total_duels |-> 0, total_volume |-> 0]
    /\ duels = << >>
    /\ escrow = << >>
    /\ deposited = << >>
    /\ balance = [k \in Keys |-> InitBalance]
    /\ clock = 0
    /\ last = [op |-> "none", duel |-> 0, event |-> NoEvent, transfers |-> << >>]

\* ----------------------------------------------------------------- actions

initialize(authority, treasury, protocol_fee_bps) ==
    /\ ~protocol.initialized
    /\ protocol' = [initialized |-> TRUE, authority |-> authority, treasury |-> treasury,
                    fee_bps |-> protocol_fee_bps, total_duels |-> 0, total_volume |-> 0]
    /\ Done("initialize", 0, NoEvent, << >>)
    /\ UNCHANGED <<duels, escrow, balance, clock, deposited>>

\* the record keyed by total_duels is kept at index total_duels + 1
create_duel(creator, stake_amount, duration_seconds, allowed_tokens) ==
    /\ protocol.initialized
    /\ duels' = Append(duels,
          [creator |-> creator, opponent |-> DefaultKey, stake_amount |-> stake_amount,
           created_at |-> clock, start_time |-> 0, end_time |-> 0,
           duration |-> duration_seconds, status |-> "Pending",
           creator_stake_deposited |-> FALSE, opponent_stake_deposited |-> FALSE,
           allowed_tokens |-> allowed_tokens,
           creator_starting_value |-> 0, opponent_starting_value |-> 0,
           creator_final_value |-> 0, opponent_final_value |-> 0,
           winner |-> "None"])
    /\ escrow' = Append(escrow, 0)
    /\ deposited' = Append(deposited, 0)
    /\ protocol' = [protocol EXCEPT !.total_duels = @ + 1]
    /\ Done("create_duel", Len(duels) + 1, NoEvent, << >>)
    /\ UNCHANGED <<balance, clock>>

accept_duel(d, opponent) ==
    /\ d \in DuelIds
    /\ IF accept_duel_result(duels[d]) # "Ok" THEN Rejected
       ELSE /\ duels' = [duels EXCEPT ![d].opponent = opponent, ![d].status = "Accepted"]
            /\ Done("accept_duel", d, NoEvent, << >>)
            /\ UNCHANGED <<protocol, escrow, balance, clock, deposited>>

\* variant: the window is not anchored at the activation time
StartIfBothDeposited_Unanchored(duel, now) ==
    IF duel.creator_stake_deposited /\ duel.opponent_stake_deposited
    THEN [duel EXCEPT !.status = "Active",
                      !.start_time = now,
                      !.end_time = duel.duration,
                      !.creator_starting_value = duel.stake_amount,
                      !.opponent_starting_value = duel.stake_amount]
    ELSE duel

\* "If both have deposited, start the duel"
StartIfBothDeposited(duel, now) ==
    IF duel.creator_stake_deposited /\ duel.opponent_stake_deposited
    THEN [duel EXCEPT !.status = "Active",
                      !.start_time = now,
                      !.end_time = now + duel.duration,
                      !.creator_starting_value = duel.stake_amount,
                      !.opponent_starting_value = duel.stake_amount]
    ELSE duel

deposit_stake(d, depositor) ==
    /\ d \in DuelIds
    /\ LET duel == duels[d]
           is_creator == depositor = duel.creator
           flagged == IF is_creator
                      THEN [duel EXCEPT !.creator_stake_deposited = TRUE]
                      ELSE [duel EXCEPT !.opponent_stake_deposited = TRUE]
           started == StartIfBothDeposited(flagged, clock)
       IN  IF deposit_stake_result(duel, depositor, balance[depositor]) # "Ok" THEN Rejected
           ELSE /\ balance' = [balance EXCEPT ![depositor] = @ - duel.stake_amount]
                /\ escrow' = [escrow EXCEPT ![d] = @ + duel.stake_amount]
                /\ deposited' = [deposited EXCEPT ![d] = @ + duel.stake_amount]
                /\ duels' = [duels EXCEPT ![d] = started]
                /\ Done("deposit_stake", d, NoEvent,
                        << [to |-> "escrow", amount |-> duel.stake_amount] >>)
                /\ UNCHANGED <<protocol, clock>>

update_positions(d, creator_value, opponent_value) ==
    /\ d \in DuelIds
    /\ IF update_positions_result(duels[d], clock) # "Ok" THEN Rejected
       ELSE /\ duels' = [duels EXCEPT ![d].creator_final_value = creator_value,
                                      ![d].opponent_final_value = opponent_value]
            /\ Done("update_positions", d,
                    [kind |-> "PositionUpdate", duel |-> d,
                     creator_value |-> creator_value, opponent_value |-> opponent_value,
                     timestamp |-> clock], << >>)
            /\ UNCHANGED <<protocol, escrow, balance, clock, deposited>>

settle_duel(d, creator_acct, opponent_acct, treasury_acct) ==
    /\ d \in DuelIds
    /\ LET duel == duels[d]
           plan == SettlePlan(duel, protocol.fee_bps, creator_acct, opponent_acct, treasury_acct)
           run == RunTransfers(escrow[d], balance, plan.transfers)
       IN  IF settle_duel_result(duel, clock, run.ok) # "Ok" THEN Rejected
           ELSE /\ escrow' = [escrow EXCEPT ![d] = run.esc]
                /\ balance' = run.bal
                /\ duels' = [duels EXCEPT ![d].status = "Settled", ![d].winner = plan.winner]
                /\ protocol' = [protocol EXCEPT !.total_volume = @ + plan.total_stake]
                /\ Done("settle_duel", d,
                        [kind |-> "DuelSettled", duel |-> d, winner |-> plan.winner,
                         creator_pnl |-> plan.creator_pnl, opponent_pnl |-> plan.opponent_pnl,
                         winner_payout |-> plan.winner_payout,
                         protocol_fee |-> plan.protocol_fee],
                        plan.transfers)
                /\ UNCHANGED <<clock, deposited>>

cancel_duel(d, caller) ==
    /\ d \in DuelIds
    /\ IF cancel_duel_result(duels[d], caller) # "Ok" THEN Rejected
       ELSE /\ duels' = [duels EXCEPT ![d].status = "Cancelled"]
            /\ Done("cancel_duel", d, NoEvent, << >>)
            /\ UNCHANGED <<protocol, escrow, balance, clock, deposited>>

\* Clock::get(): the ledger clock never goes back
Tick ==
    /\ clock < MaxTime
    /\ clock' = clock + 1
    /\ UNCHANGED <<protocol, duels, escrow, balance, deposited, last>>

Initialize == \E a \in AuthorityKeys, t \in TreasuryKeys, f \in FeeBps : initialize(a, t, f)
\* create_duel has no precondition; the number of duels Spec creates is capped
CreateDuel ==
    /\ Len(duels) < MaxLifecycleDuels
    /\ \E c \in Keys, s \in Stakes, n \in Durations, l \in TokenLists : create_duel(c, s, n, l)
AcceptDuel == \E d \in DuelIds, o \in Keys : accept_duel(d, o)
DepositStake == \E d \in DuelIds, k \in Keys : deposit_stake(d, k)
UpdatePositions == \E d \in DuelIds, cv \in Values, ov \in Values : update_positions(d, cv, ov)
\* the accounts a caller passes to settle_duel: creator, opponent and treasury
\* are unchecked accounts, any three identities are accepted
SettleAccounts(d) == Keys \X Keys \X Keys
SettleDuel == \E d \in DuelIds : \E a \in SettleAccounts(d) : settle_duel(d, a[1], a[2], a[3])
CancelDuel == \E d \in DuelIds, k \in Keys : cancel_duel(d, k)

Next ==
    \/ Initialize
    \/ CreateDuel
    \/ AcceptDuel
    \/ DepositStake
    \/ UpdatePositions
    \/ SettleDuel
    \/ CancelDuel
    \/ Tick

Spec == Init /\ [][Next]_vars

\* ------------------------------------------- the settlement arithmetic alone
\* An Active duel whose window has elapsed (both stakes deposited once, no
\* report yet), for every fee rate 0..10000 and small and large stakes; the
\* oracle reports a pair of values and anyone settles with the recorded accounts.
ArithStakes == (0 .. MaxArithStake) \cup {1000, 2 * BpsDenominator}
ArithFeeBps == 0 .. BpsDenominator
ArithValuePairs(s) == {<<s + 1, s>>, <<IF s > 0 THEN s - 1 ELSE 0, s>>, <<1200, 900>>}

InitArith ==
    /\ \E f \in ArithFeeBps :
          protocol = [initialized |-> TRUE, authority |-> 1, treasury |-> 3,
                      fee_bps |-> f, total_duels |-> 1, total_volume |-> 0]
    /\ \E s \in ArithStakes :
          /\ duels = << [creator |-> 1, opponent |-> 2, stake_amount |-> s,
                         created_at |-> 0, start_time |-> 0, end_time |-> 0,
                         duration |-> 0, status |-> "Active",
                         creator_stake_deposited |-> TRUE, opponent_stake_deposited |-> TRUE,
                         allowed_tokens |-> << >>,
                         creator_starting_value |-> s, opponent_starting_value |-> s,
                         creator_final_value |-> 0, opponent_final_value |-> 0,
                         winner |-> "None"] >>
          /\ escrow = << 2 * s >>
          /\ deposited = << 2 * s >>
          /\ last = [op |-> "deposit_stake", duel |-> 1, event |-> NoEvent,
                     transfers |-> << [to |-> "escrow", amount |-> s] >>]
    /\ balance = [k \in Keys |-> 0]
    /\ clock = 0

ArithUpdate == \E p \in ArithValuePairs(duels[1].stake_amount) : update_positions(1, p[1], p[2])
ArithSettle == settle_duel(1, duels[1].creator, duels[1].opponent, protocol.treasury)

NextArith ==
    \/ ArithUpdate
    \/ ArithSettle

SpecArith == InitArith /\ [][NextArith]_vars

\* ------------------------------------------------ several duels, one registry
\* Up to MaxDuels duels of one creator, accepted by one opponent, with windows
\* of length 0: the registry counters over creations, cancellations, deposits,
\* reports and settlements.
RegCreate ==
    /\ Len(duels) < MaxDuels
    /\ \E s \in Stakes : create_duel(1, s, 0, << >>)
RegAccept == \E d \in DuelIds : accept_duel(d, 2)
RegDeposit == \E d \in DuelIds, k \in {1, 2} : deposit_stake(d, k)
RegUpdate == \E d \in DuelIds : update_positions(d, 1, 0)
RegSettle ==
    \E d \in DuelIds : settle_duel(d, duels[d].creator, duels[d].opponent, protocol.treasury)
RegCancel == \E d \in DuelIds : cancel_duel(d, 1)

NextRegistry ==
    \/ Initialize
    \/ RegCreate
    \/ RegAccept
    \/ RegDeposit
    \/ RegUpdate
    \/ RegSettle
    \/ RegCancel

SpecRegistry == Init /\ [][NextRegistry]_vars

\* --------------------------------------------------------------- properties

Settlement == last.op = "settle_duel"
SettledDuel == duels[last.duel]
SettledEvent == last.event

\* C1: a successful settle_duel sends the fee to protocol.treasury and the payout
\* to the recorded creator and/or opponent only, whatever accounts are passed.
C1_FundsOnlyToRecordedParties ==
    Settlement =>
        /\ last.transfers[1].to = protocol.treasury
        /\ SettledEvent.winner = "Creator" => last.transfers[2].to = SettledDuel.creator
        /\ SettledEvent.winner = "Opponent" => last.transfers[2].to = SettledDuel.opponent
        /\ SettledEvent.winner = "Draw" =>
              /\ last.transfers[2].to = SettledDuel.creator
              /\ last.transfers[3].to = SettledDuel.opponent
        /\ \A i \in DOMAIN last.transfers :
              last.transfers[i].to \in
                 {protocol.treasury, SettledDuel.creator, SettledDuel.opponent}

\* C2: until settlement the escrow holds exactly the sum of the deposits made,
\* and a Settled duel's escrow is exactly zero.
C2_EscrowMatchesDepositsThenZero ==
    \A d \in DuelIds :
        /\ duels[d].status # "Settled" => escrow[d] = deposited[d]
        /\ duels[d].status = "Settled" => escrow[d] = 0

\* C3: no participant is charged twice, so the escrow (and the sum deposited)
\* never exceeds 2 x stake_amount.
C3_NoDoubleCharge ==
    \A d \in DuelIds :
        /\ deposited[d] <= 2 * duels[d].stake_amount
        /\ escrow[d] <= 2 * duels[d].stake_amount

\* C4: every status change is Pending->Accepted by accept_duel, Pending->Cancelled
\* by cancel_duel, Accepted->Active by deposit_stake or Active->Settled by settle_duel.
LegalEdges ==
    { <<"Pending", "Accepted", "accept_duel">>, <<"Pending", "Cancelled", "cancel_duel">>,
      <<"Accepted", "Active", "deposit_stake">>, <<"Active", "Settled", "settle_duel">> }
C4_StatusEdges ==
    [][ \A d \in DuelIds :
           duels'[d].status # duels[d].status =>
              <<duels[d].status, duels'[d].status, last'.op>> \in LegalEdges ]_vars
C4_Witness ==
    \E d \in DuelIds : duels[d].status = "Settled" /\ last.op = "settle_duel" /\ last.duel = d

\* C5: on a Settled or Cancelled duel every accept_duel, deposit_stake,
\* update_positions, settle_duel and cancel_duel call is rejected, and no step
\* changes the duel record or its escrow balance.
Terminal(d) == duels[d].status \in {"Settled", "Cancelled"}
AllCallsRejected(d) ==
    /\ accept_duel_result(duels[d]) # "Ok"
    /\ update_positions_result(duels[d], clock) # "Ok"
    /\ \A k \in Keys :
          /\ deposit_stake_result(duels[d], k, balance[k]) # "Ok"
          /\ cancel_duel_result(duels[d], k) # "Ok"
    /\ \A c \in Keys, o \in Keys, t \in Keys :
          settle_duel_result(duels[d], clock,
              RunTransfers(escrow[d], balance,
                           SettlePlan(duels[d], protocol.fee_bps, c, o, t).transfers).ok) # "Ok"
C5_TerminalIsFinal ==
    [][ \A d \in DuelIds :
           Terminal(d) =>
              /\ AllCallsRejected(d)
              /\ duels'[d] = duels[d]
              /\ escrow'[d] = escrow[d] ]_vars
C5_Witness ==
    \E d \in DuelIds : Terminal(d) /\ clock > duels[d].created_at /\ AllCallsRejected(d)

\* C6: a settlement won by Creator or Opponent (stake_amount > 0, fee_bps in
\* 0..10000) has protocol_fee = floor(2 x stake x fee_bps / 10000),
\* winner_payout + protocol_fee = 2 x stake and protocol_fee <= 2 x stake; these
\* are the two amounts transferred.
C6_NonDrawPayout ==
    (Settlement /\ SettledEvent.winner \in {"Creator", "Opponent"}
                /\ SettledDuel.stake_amount > 0 /\ protocol.fee_bps \in 0 .. BpsDenominator) =>
        LET stake == SettledDuel.stake_amount
            fee == SettledEvent.protocol_fee
            pay == SettledEvent.winner_payout
        IN  /\ fee * 10000 <= 2 * stake * protocol.fee_bps
            /\ 2 * stake * protocol.fee_bps < (fee + 1) * 10000
            /\ pay + fee = 2 * stake
            /\ fee >= 0 /\ fee <= 2 * stake
            /\ Len(last.transfers) = 2
            /\ last.transfers[1].amount = fee
            /\ last.transfers[2].amount = pay
C6_Witness ==
    /\ Settlement /\ SettledEvent.winner = "Creator"
    /\ SettledDuel.stake_amount = 1000 /\ protocol.fee_bps = 500
    /\ SettledDuel.creator_final_value = 1200 /\ SettledDuel.opponent_final_value = 900
    /\ SettledEvent.protocol_fee = 100 /\ SettledEvent.winner_payout = 1900

\* C7: a Draw settlement refunds stake_amount - floor(protocol_fee / 2) to each
\* party, and the fee plus the two refunds is at most 2 x stake_amount and at
\* least 2 x stake_amount - 1.
C7_DrawNeverOverpays ==
    (Settlement /\ SettledEvent.winner = "Draw" /\ SettledDuel.stake_amount > 0
                /\ protocol.fee_bps \in 0 .. BpsDenominator) =>
        LET stake == SettledDuel.stake_amount
            fee == SettledEvent.protocol_fee
        IN  /\ Len(last.transfers) = 3
            /\ last.transfers[2].amount = stake - (fee \div 2)
            /\ last.transfers[3].amount = stake - (fee \div 2)
            /\ SumAmounts(last.transfers) <= 2 * stake
            /\ SumAmounts(last.transfers) >= 2 * stake - 1

\* C8: in a settled duel the strictly higher final value wins, and the winner is
\* Draw only when the two final values are equal.
C8_HigherFinalValueWins ==
    (Settlement /\ SettledDuel.stake_amount > 0) =>
        /\ SettledDuel.creator_final_value > SettledDuel.opponent_final_value
              => SettledDuel.winner = "Creator"
        /\ SettledDuel.opponent_final_value > SettledDuel.creator_final_value
              => SettledDuel.winner = "Opponent"
        /\ SettledDuel.winner = "Draw"
              => SettledDuel.creator_final_value = SettledDuel.opponent_final_value

\* C9: each PnL is 0 for a starting value of 0 and otherwise the signed quotient,
\* truncated toward zero, of (final - starting) x 10000 by starting; the winner is
\* Creator / Opponent for the strictly greater PnL and Draw for equal PnL; a duel
\* with no reported values (both final values 0) settles as a Draw.
IsPnl(q, s, f) ==
    IF s = 0 THEN q = 0
    ELSE LET n == (f - s) * 10000
         IN  IF n >= 0 THEN q >= 0 /\ q * s <= n /\ n < (q + 1) * s
             ELSE q <= 0 /\ (-q) * s <= -n /\ -n < ((-q) + 1) * s
C9_PnlAndWinnerRule ==
    Settlement =>
        LET duel == SettledDuel
            cp == SettledEvent.creator_pnl
            op == SettledEvent.opponent_pnl
        IN  /\ IsPnl(cp, duel.creator_starting_value, duel.creator_final_value)
            /\ IsPnl(op, duel.opponent_starting_value, duel.opponent_final_value)
            /\ cp > op => duel.winner = "Creator"
            /\ op > cp => duel.winner = "Opponent"
            /\ cp = op => duel.winner = "Draw"
            /\ (duel.creator_final_value = 0 /\ duel.opponent_final_value = 0)
                  => duel.winner = "Draw"
C9_Witness ==
    /\ Settlement
    /\ SettledDuel.stake_amount = 2 * BpsDenominator
    /\ SettledDuel.creator_final_value = SettledDuel.stake_amount - 1
    /\ SettledEvent.creator_pnl = 0 /\ SettledEvent.opponent_pnl = 0
    /\ SettledDuel.winner = "Draw"

\* C10: winner # None exactly when status = Settled.
C10_WinnerIffSettled ==
    \A d \in DuelIds : (duels[d].winner # "None") <=> (duels[d].status = "Settled")
C10_Witness ==
    \E d \in DuelIds : duels[d].status = "Settled" /\ duels[d].winner = "Draw"

\* the outcome of settle_duel on duel d with the accounts c, o, t
SettleResult(d, c, o, t) ==
    settle_duel_result(duels[d], clock,
        RunTransfers(escrow[d], balance,
                     SettlePlan(duels[d], protocol.fee_bps, c, o, t).transfers).ok)
\* ... with the recorded creator, opponent and treasury
HonestSettleResult(d) ==
    SettleResult(d, duels[d].creator, duels[d].opponent, protocol.treasury)

\* C11: settle_duel on an Active duel before end_time is rejected with
\* DuelNotExpired whatever accounts are passed; a Settled duel is never seen at a
\* clock below its end_time, and no funds have left an escrow before end_time.
C11_NoSettlementBeforeEnd ==
    \A d \in DuelIds :
        /\ (duels[d].status = "Active" /\ clock < duels[d].end_time) =>
               \A c \in Keys, o \in Keys, t \in Keys : SettleResult(d, c, o, t) = "DuelNotExpired"
        /\ duels[d].status = "Settled" => clock >= duels[d].end_time
        /\ escrow[d] < deposited[d] => clock >= duels[d].end_time
C11_Witness ==
    \E d \in DuelIds :
        /\ duels[d].status = "Active" /\ clock < duels[d].end_time
        /\ HonestSettleResult(d) = "DuelNotExpired"
        /\ escrow[d] = 2 * duels[d].stake_amount

\* C12: update_positions on an Active duel after end_time is rejected with
\* DuelExpired; the final values change only in a step taken while the duel is
\* Active and the clock has not passed end_time.
FinalValues(duel) == <<duel.creator_final_value, duel.opponent_final_value>>
C12_FinalValuesFrozenAfterEnd ==
    [][ \A d \in DuelIds :
           /\ (duels[d].status = "Active" /\ clock > duels[d].end_time) =>
                  update_positions_result(duels[d], clock) = "DuelExpired"
           /\ FinalValues(duels'[d]) # FinalValues(duels[d]) =>
                  /\ duels[d].status = "Active" /\ duels'[d].status = "Active"
                  /\ clock <= duels[d].end_time
                  /\ last'.op = "update_positions" ]_vars
C12_Witness ==
    \E d \in DuelIds :
        /\ duels[d].status = "Active" /\ clock > duels[d].end_time
        /\ FinalValues(duels[d]) # <<0, 0>>
        /\ update_positions_result(duels[d], clock) = "DuelExpired"

\* C13: accept_duel on a duel whose opponent is already set is rejected with
\* DuelAlreadyAccepted.
C13_SecondAcceptIsAlreadyAccepted ==
    \A d \in DuelIds :
        duels[d].opponent # DefaultKey => accept_duel_result(duels[d]) = "DuelAlreadyAccepted"

\* C14: in Pending, Accepted and Cancelled the times and starting values are 0;
\* in Active and Settled both deposited flags are set, end_time = start_time +
\* duration and both starting values are stake_amount; start_time is the clock of
\* the step that activates the duel; an Accepted duel never has both flags set.
TimesAndStartValuesOK(duel) ==
    /\ duel.status \in {"Pending", "Accepted", "Cancelled"} =>
           /\ duel.start_time = 0 /\ duel.end_time = 0
           /\ duel.creator_starting_value = 0 /\ duel.opponent_starting_value = 0
    /\ duel.status \in {"Active", "Settled"} =>
           /\ duel.creator_stake_deposited /\ duel.opponent_stake_deposited
           /\ duel.end_time = duel.start_time + duel.duration
           /\ duel.creator_starting_value = duel.stake_amount
           /\ duel.opponent_starting_value = duel.stake_amount
    /\ duel.status = "Accepted" =>
           ~(duel.creator_stake_deposited /\ duel.opponent_stake_deposited)
C14_TimesAndStartValues ==
    [][ \A d \in DOMAIN duels' :
           /\ TimesAndStartValuesOK(duels'[d])
           /\ (d \in DuelIds /\ duels[d].status # "Active" /\ duels'[d].status = "Active") =>
                  duels'[d].start_time = clock
           /\ (d \in DuelIds /\ duels[d].status \in {"Active", "Settled"}) =>
                  duels'[d].start_time = duels[d].start_time ]_vars
C14_Witness ==
    \E d \in DuelIds :
        /\ duels[d].status = "Active" /\ last.op = "deposit_stake"
        /\ duels[d].start_time > 0 /\ duels[d].duration > 0
        /\ duels[d].end_time = duels[d].start_time + duels[d].duration

\* C15: nothing is ever partially applied.  Funds leave an escrow only in a step
\* that makes every transfer of a settlement, sets status = Settled and the winner
\* and adds to total_volume; funds enter an escrow only as one stake_amount paid by
\* one wallet in a deposit_stake step; no other step moves funds, and an Active
\* duel whose settlement cannot pay all its transfers stays Active and funded.
RECURSIVE SumOver(_, _)
SumOver(f, S) == IF S = {} THEN 0 ELSE LET x == CHOOSE y \in S : TRUE IN f[x] + SumOver(f, S \ {x})
C15_NoPartialEffect ==
    [][ /\ \A d \in DuelIds :
              /\ escrow'[d] < escrow[d] =>
                     /\ duels[d].status = "Active" /\ duels'[d].status = "Settled"
                     /\ duels'[d].winner # "None"
                     /\ last'.op = "settle_duel" /\ last'.duel = d
                     /\ escrow[d] - escrow'[d] = SumAmounts(last'.transfers)
                     /\ SumOver(balance', Keys) - SumOver(balance, Keys) = SumAmounts(last'.transfers)
                     /\ Len(last'.transfers) = IF duels'[d].winner = "Draw" THEN 3 ELSE 2
                     /\ protocol'.total_volume = protocol.total_volume + 2 * duels[d].stake_amount
              /\ escrow'[d] > escrow[d] =>
                     /\ duels[d].status = "Accepted"
                     /\ last'.op = "deposit_stake" /\ last'.duel = d
                     /\ escrow'[d] = escrow[d] + duels[d].stake_amount
                     /\ \E k \in {duels[d].creator, duels[d].opponent} :
                            balance' = [balance EXCEPT ![k] = @ - duels[d].stake_amount]
                     /\ duels'[d].creator_stake_deposited \/ duels'[d].opponent_stake_deposited
              /\ escrow'[d] = escrow[d] =>
                     /\ duels'[d].status = "Settled" => duels[d].status = "Settled"
                     /\ duels'[d].creator_stake_deposited = duels[d].creator_stake_deposited
                     /\ duels'[d].opponent_stake_deposited = duels[d].opponent_stake_deposited
        /\ (\A d \in DuelIds : escrow'[d] = escrow[d]) =>
              /\ balance' = balance
              /\ protocol'.total_volume = protocol.total_volume ]_vars
C15_Witness ==
    \E d \in DuelIds :
        /\ duels[d].status = "Active" /\ clock >= duels[d].end_time
        /\ HonestSettleResult(d) = "TransferFailed"
        /\ escrow[d] = deposited[d]
        /\ escrow[d] >= SettlePlan(duels[d], protocol.fee_bps, 1, 2, 3).protocol_fee
        /\ SettlePlan(duels[d], protocol.fee_bps, 1, 2, 3).protocol_fee > 0

\* C16: total_duels is the number of duels created, and total_volume is the sum
\* of 2 x stake_amount over the Settled duels.
RECURSIVE SettledVolume(_)
SettledVolume(n) ==
    IF n = 0 THEN 0
    ELSE SettledVolume(n - 1)
         + (IF duels[n].status = "Settled" THEN 2 * duels[n].stake_amount ELSE 0)
C16_RegistryCounters ==
    /\ protocol.total_duels = Len(duels)
    /\ protocol.total_volume = SettledVolume(Len(duels))
C16_Witness ==
    /\ Len(duels) >= 2
    /\ duels[1].status = "Settled" /\ duels[2].status = "Settled"
    /\ duels[1].stake_amount # duels[2].stake_amount

\* C17 (as amended): cancel_duel succeeds only for the creator on a Pending duel;
\* on a Pending duel any other identity gets Unauthorized; in every other status
\* every caller gets CannotCancel; a Cancelled duel has no opponent and an empty
\* escrow into which nothing was ever deposited.
C17_CancelOnlyPendingByCreator ==
    \A d \in DuelIds :
        /\ \A k \in Keys :
              /\ cancel_duel_result(duels[d], k) = "Ok" =>
                     (duels[d].status = "Pending" /\ k = duels[d].creator)
              /\ (duels[d].status = "Pending" /\ k # duels[d].creator) =>
                     cancel_duel_result(duels[d], k) = "Unauthorized"
              /\ duels[d].status # "Pending" => cancel_duel_result(duels[d], k) = "CannotCancel"
        /\ duels[d].status = "Cancelled" =>
              /\ duels[d].opponent = DefaultKey
              /\ escrow[d] = 0 /\ deposited[d] = 0
C17_Witness ==
    \E d \in DuelIds :
        /\ duels[d].status = "Cancelled" /\ last.op = "cancel_duel"
        /\ \A k \in Keys : cancel_duel_result(duels[d], k) = "CannotCancel"
\* C17 as stated: cancel_duel by any identity other than the creator fails with
\* Unauthorized.
C17_OtherCallerUnauthorized ==
    \A d \in DuelIds : \A k \in Keys :
        k # duels[d].creator => cancel_duel_result(duels[d], k) = "Unauthorized"

\* C18: an Active duel whose clock has reached end_time is settled by a
\* settle_duel call that names the recorded creator, opponent and treasury.
C18_ExpiredDuelCanSettle ==
    \A d \in DuelIds :
        (duels[d].status = "Active" /\ clock >= duels[d].end_time
            /\ duels[d].stake_amount > 0 /\ protocol.fee_bps \in 0 .. BpsDenominator)
        => HonestSettleResult(d) = "Ok"

\* C19: an Accepted duel for which the recorded creator and the recorded opponent
\* have each made a successful deposit is already Active (no state is Accepted
\* with both identities' stakes in escrow).
CreatorHasDeposited(duel) == duel.creator_stake_deposited
OpponentHasDeposited(duel) ==
    IF duel.opponent = duel.creator THEN duel.creator_stake_deposited
    ELSE duel.opponent_stake_deposited
C19_BothDepositedMeansActive ==
    \A d \in DuelIds :
        duels[d].status = "Accepted" =>
            ~(CreatorHasDeposited(duels[d]) /\ OpponentHasDeposited(duels[d]))

\* C20 (as amended): for an Active duel update_positions and settle_duel are
\* both accepted at no clock value other than end_time itself.
BothAccepted(d) ==
    /\ update_positions_result(duels[d], clock) = "Ok"
    /\ HonestSettleResult(d) = "Ok"
C20_OverlapOnlyAtEndTime ==
    \A d \in DuelIds :
        (duels[d].status = "Active" /\ BothAccepted(d)) => clock = duels[d].end_time
C20_Witness ==
    \E d \in DuelIds :
        /\ duels[d].status = "Active" /\ clock = duels[d].end_time /\ BothAccepted(d)
        /\ last.op = "update_positions"
\* C20 as stated: at no clock value are both accepted.
C20_NoOverlap ==
    \A d \in DuelIds : duels[d].status = "Active" => ~BothAccepted(d)
====
